---- MODULE Spec2Model ----
(***************************************************************************)
(* The RAUC D-Bus client binding (package rauc): one Installer holding one *)
(* bus connection, its Install/InstallBundle call-then-await-"Completed"   *)
(* invocation, and its property reads and simple calls.                    *)
(*                                                                         *)
(* src/ holds three revisions of the binding. Their Install/InstallBundle   *)
(* take the same steps and differ in the error values they build, so one   *)
(* invocation of the model stands for all three: result[i] records the    *)
(* return statement reached and its operands, and returned(rev, r) is the  *)
(* error revision rev returns there. The revisions are named by their file:*)
(*   "part_000"      InstallBundle, godbus/dbus v5.1.0 (src/unnamed/part_000)*)
(*   "installer.go"  Install, godbus/dbus              (src/installer.go)  *)
(*   "part_001"      Install, errors returned unwrapped (src/unnamed/part_001)*)
(*                                                                         *)
(* Strings are modelled as tuples of fragments, so that formatting         *)
(* (fmt.Errorf, Variant.String) is concatenation and not the identity.     *)
(***************************************************************************)
EXTENDS Integers, Sequences, FiniteSets, TLC

(* ---------------------------------------------------------------- bounds *)

\* Number of Install/InstallBundle invocations made on the one Installer
\* (possibly from concurrent callers).
MaxInv == 2

\* Number of notifications other than "Completed" the bus hands to the
\* connection.
MaxOther == 1

\* Number of property reads / simple calls made while the invocations run.
MaxGetterCalls == 1

Invocations == 1..MaxInv

(* ------------------------------------------------------ program constants *)

\* make(chan *dbus.Signal, 10)
ChanCap == 10

dbusInterface == "de.pengutronix.rauc"

Revisions == {"part_000", "installer.go", "part_001"}

interfaceForMember(method) == <<dbusInterface, "Installer", method>>

(* ------------------------------------------------------------ Go's errors *)

\* a nil error
Nil == [kind |-> "nil", msg |-> <<>>]

errorsNew(text) == [kind |-> "error", msg |-> text]

\* fmt.Errorf(prefix + "%v", err)
fmtErrorf(prefix, err) == [kind |-> "error", msg |-> <<prefix>> \o err.msg]

\* The errors the transport gives for a method call or a property read: the
\* daemon's error reply, or the connection's own error once it is closed.
ErrRemote == errorsNew(<<"org.freedesktop.DBus.Error.ServiceUnknown">>)
ErrClosed == errorsNew(<<"dbus: connection closed by user">>)

TransportErrors(isClosed) == IF isClosed THEN {ErrClosed} ELSE {ErrRemote}

(* ------------------------------------------------------------ D-Bus values *)

\* A typed value: an int32 carries n, a string carries s, a struct or an array
\* carries its members f.
Int32(n) == [t |-> "int32", n |-> n, s |-> "", f |-> <<>>]
Str(s) == [t |-> "string", n |-> 0, s |-> s, f |-> <<>>]
Struct(f) == [t |-> "struct", n |-> 0, s |-> "", f |-> f]
Array(f) == [t |-> "array", n |-> 0, s |-> "", f |-> f]
NoValue == [t |-> "none", n |-> 0, s |-> "", f |-> <<>>]

\* The completion codes the daemon sends.
Codes == {0, 1}

\* The bodies a "Completed" signal can carry: one int32, or something else.
Bodies == {<<Int32(c)>> : c \in Codes} \cup {<<Str("done")>>}

\* The values of the daemon's LastError property.
LastErrors == {"", "Failed to verify bundle"}

\* v.String() of a string variant: the quoted string
\* (cmd/copy-from-other-slot strips these quotes again).
VariantString(v) == <<"\"", v.s, "\"">>

\* dbus.Store(src, dest...): nil when src has one value of the wanted type for
\* each destination.
Store(src, types) ==
  IF Len(src) # Len(types) THEN errorsNew(<<"dbus.Store: length mismatch">>)
  ELSE IF \E k \in 1..Len(src) : src[k].t # types[k]
       THEN errorsNew(<<"dbus.Store: type mismatch">>)
       ELSE Nil

\* dbus.Store(signal.Body, &code) with code an int32
StoreInt32(body) ==
  LET err == Store(body, <<"int32">>) IN
  [err |-> err, code |-> IF err = Nil THEN body[1].n ELSE 0]

(* ---------------------------------------------------------- notifications *)

\* op is not on the wire: it records which invocation's operation the daemon
\* emitted the signal for (0: none).
Signal(name, body, op) == [name |-> name, body |-> body, op |-> op]

NoSignal == Signal(<<>>, <<>>, 0)

OtherSignal == Signal(<<"org.freedesktop.DBus", "Properties", "PropertiesChanged">>, <<>>, 0)

CompletedSignal(body, op) == Signal(interfaceForMember("Completed"), body, op)

\* What a property read gave, before any was made.
NoRead == [v |-> NoValue, err |-> Nil]

\* The return statements of Install/InstallBundle, with their operands.
Return(ret, err, read) == [ret |-> ret, err |-> err, read |-> read]

NoResult == Return("none", Nil, NoRead)

VARIABLES
  closed,       \* the connection is closed (its signal handler terminated)
  pc,           \* pc[i]: where invocation i is
  attached,     \* attached[i]: doneChannel of i is registered with the connection
  chan,         \* chan[i]: the buffer of i's doneChannel
  pending,      \* pending[i]: signals of senders blocked on the full chan[i]
  result,       \* result[i]: the return statement invocation i reached
  resolvedBy,   \* resolvedBy[i]: the Completed signal i accepted
  nReads,       \* nReads[i]: LastError reads made by invocation i
  opState,      \* opState[i]: the daemon's operation started by i's call
  lastError,    \* the daemon's LastError property
  nOther,       \* other notifications handed to the connection so far
  reply,        \* what the last property read / simple call returned
  nGetter       \* property reads / simple calls made so far

vars == <<closed, pc, attached, chan, pending, result, resolvedBy,
          nReads, opState, lastError, nOther, reply, nGetter>>

\* What a property read or simple call gives back: strings s, or the progress
\* triple prog, and err; read is what the transport had answered.
NoProgress == [percentage |-> 0, message |-> "", nestingDepth |-> 0]

Reply(op, s, prog, err, read) ==
  [op |-> op, s |-> s, prog |-> prog, err |-> err, read |-> read]

NoReply == Reply("none", <<>>, NoProgress, Nil, NoRead)

\* InstallerNew(): a connection, the object, the match rule; no channel yet.
Init ==
  /\ closed = FALSE
  /\ pc = [i \in Invocations |-> "idle"]
  /\ attached = [i \in Invocations |-> FALSE]
  /\ chan = [i \in Invocations |-> <<>>]
  /\ pending = [i \in Invocations |-> <<>>]
  /\ result = [i \in Invocations |-> NoResult]
  /\ resolvedBy = [i \in Invocations |-> NoSignal]
  /\ nReads = [i \in Invocations |-> 0]
  /\ opState = [i \in Invocations |-> "none"]
  /\ lastError \in LastErrors
  /\ nOther = 0
  /\ reply = NoReply
  /\ nGetter = 0

(* ------------------------------------------------------- the transport *)

\* p.object.GetProperty(...): the outcomes of reading a property whose value
\* is v. A closed connection answers nothing.
GetProperty(v) ==
  {[v |-> NoValue, err |-> e] : e \in TransportErrors(closed)}
    \cup (IF closed THEN {} ELSE {[v |-> v, err |-> Nil]})

\* The error a failed read or call is returned as: part_001 returns it as it
\* is, the other revisions wrap it with the operation's name.
wrap(rev, prefix, err) == IF rev = "part_001" THEN err ELSE fmtErrorf(prefix, err)

\* GetLastError(): (string, error), r being what GetProperty gave.
GetLastError(rev, r) ==
  IF r.err # Nil
  THEN [s |-> <<>>, err |-> wrap(rev, "RAUC: GetLastError(): ", r.err)]
  ELSE [s |-> VariantString(r.v), err |-> Nil]

(* ------------------------------------------------ Install / InstallBundle *)

\* return fmt.Errorf("RAUC: Install(): %v", err)
callError(rev, err) == wrap(rev, "RAUC: Install(): ", err)

\* Faulty variant: a closed channel is taken for success.
channelClosedError_nil(rev) == Nil

\* return errors.New("RAUC: Cannot read from channel")
channelClosedError(rev) ==
  IF rev = "part_001" THEN errorsNew(<<"Cannot read from channel">>)
  ELSE errorsNew(<<"RAUC: Cannot read from channel">>)

\* Faulty variant: the error of GetLastError is dropped.
lastErrorError_ignoresReadError(rev, read) == errorsNew(GetLastError(rev, read).s)

\* errorString, err := p.GetLastError()
\* if err != nil { return err }; return errors.New(errorString)
lastErrorError(rev, read) ==
  LET g == GetLastError(rev, read) IN
  IF g.err # Nil THEN g.err ELSE errorsNew(g.s)

\* The error revision rev returns at return statement r.
returned(rev, r) ==
  CASE r.ret = "call" -> callError(rev, r.err)
    [] r.ret = "closed" -> channelClosedError(rev)
    [] r.ret = "store" -> r.err
    [] r.ret = "lasterror" -> lastErrorError(rev, r.read)
    [] r.ret = "nil" -> Nil

\* Faulty variant: every signal is taken for the completion.
isCompleted_anySignal(i, signal) == TRUE

\* Variant with a per-call token: only the Completed of i's own operation
\* matches.
isCompleted_token(i, signal) ==
  signal.name = interfaceForMember("Completed") /\ signal.op = i

\* signal.Name == p.interfaceForMember("Completed"): the test invocation i
\* makes on a received signal. Nothing of the invocation enters it.
isCompleted(i, signal) == signal.name = interfaceForMember("Completed")

\* Faulty variant: the code is not compared with zero.
handleCompleted_alwaysReads(body) ==
  LET st == StoreInt32(body) IN
  IF st.err # Nil THEN [pc |-> "done", result |-> Return("store", st.err, NoRead)]
  ELSE [pc |-> "geterr", result |-> NoResult]

\* What follows a matching signal: decode the code, then return or go on to
\* read LastError.
handleCompleted(body) ==
  LET st == StoreInt32(body) IN
  IF st.err # Nil THEN [pc |-> "done", result |-> Return("store", st.err, NoRead)]
  ELSE IF st.code # 0 THEN [pc |-> "geterr", result |-> NoResult]
  ELSE [pc |-> "done", result |-> Return("nil", Nil, NoRead)]

\* Faulty variant: the channel is not registered.
connSignal_skip(i) == attached

\* conn.Signal(doneChannel): the connection's handler registers the channel,
\* unless it has terminated.
connSignal(i) == [attached EXCEPT ![i] = ~closed]

\* doneChannel := make(chan *dbus.Signal, 10); p.conn.Signal(doneChannel)
\* (invocations are numbered in the order they start)
InstallBundle_Signal(i) ==
  /\ pc[i] = "idle"
  /\ \A j \in Invocations : j < i => pc[j] # "idle"
  /\ attached' = connSignal(i)
  /\ pc' = [pc EXCEPT ![i] = "call"]
  /\ UNCHANGED <<closed, chan, pending, result, resolvedBy, nReads,
                 opState, lastError, nOther, reply, nGetter>>

\* Faulty variant: the call's error is not returned, the wait begins.
InstallBundle_Call_noReturn(i) ==
  /\ pc[i] = "call"
  /\ \/ /\ pc' = [pc EXCEPT ![i] = "wait"]
        /\ UNCHANGED opState
     \/ /\ ~closed
        /\ opState' = [opState EXCEPT ![i] = "running"]
        /\ pc' = [pc EXCEPT ![i] = "wait"]
  /\ UNCHANGED <<closed, attached, chan, pending, result, resolvedBy, nReads,
                 lastError, nOther, reply, nGetter>>

\* err := p.object.Call(...).Err; if err != nil { return ... }
\* The daemon answers the call when it has started the operation.
InstallBundle_Call(i) ==
  /\ pc[i] = "call"
  /\ \/ \E e \in TransportErrors(closed) :
          /\ result' = [result EXCEPT ![i] = Return("call", e, NoRead)]
          /\ pc' = [pc EXCEPT ![i] = "done"]
          /\ UNCHANGED opState
     \/ /\ ~closed
        /\ opState' = [opState EXCEPT ![i] = "running"]
        /\ pc' = [pc EXCEPT ![i] = "wait"]
        /\ UNCHANGED result
  /\ UNCHANGED <<closed, attached, chan, pending, resolvedBy, nReads,
                 lastError, nOther, reply, nGetter>>

\* The buffer of doneChannel after a receive took its head: a sender blocked
\* on the full buffer, if there is one, puts its signal at the tail in the
\* same step.
afterReceive(buf, blocked) ==
  IF blocked = <<>> THEN Tail(buf) ELSE Append(Tail(buf), Head(blocked))

\* One pass of the for loop: signal, ok := <-doneChannel, and what follows up
\* to the next blocking point. A closed channel still yields what it buffers.
InstallBundle_Receive(i) ==
  /\ pc[i] = "wait"
  /\ IF chan[i] # <<>>
     THEN LET signal == Head(chan[i]) IN
          /\ chan' = [chan EXCEPT ![i] = afterReceive(chan[i], pending[i])]
          /\ pending' = [pending EXCEPT ![i] = IF @ = <<>> THEN @ ELSE Tail(@)]
          /\ IF isCompleted(i, signal)
             THEN LET h == handleCompleted(signal.body) IN
                  /\ resolvedBy' = [resolvedBy EXCEPT ![i] = signal]
                  /\ pc' = [pc EXCEPT ![i] = h.pc]
                  /\ result' = [result EXCEPT ![i] = h.result]
             ELSE UNCHANGED <<resolvedBy, pc, result>>
     ELSE /\ closed /\ attached[i]
          /\ result' = [result EXCEPT ![i] = Return("closed", Nil, NoRead)]
          /\ pc' = [pc EXCEPT ![i] = "done"]
          /\ UNCHANGED <<chan, pending, resolvedBy>>
  /\ UNCHANGED <<closed, attached, nReads, opState, lastError,
                 nOther, reply, nGetter>>

\* errorString, err := p.GetLastError() and the return that follows.
InstallBundle_GetLastError(i) ==
  /\ pc[i] = "geterr"
  /\ \E r \in GetProperty(Str(lastError)) :
       result' = [result EXCEPT ![i] = Return("lasterror", Nil, r)]
  /\ nReads' = [nReads EXCEPT ![i] = @ + 1]
  /\ pc' = [pc EXCEPT ![i] = "done"]
  /\ UNCHANGED <<closed, attached, chan, pending, resolvedBy, opState, lastError, nOther, reply, nGetter>>

(* ------------------------------------------- the connection and the daemon *)

\* The connection's handler passes an incoming signal to every registered
\* channel: into its buffer when there is room, else a sender blocks on it.
hasRoom(j) == Len(chan[j]) < ChanCap

\* Variant in which an invocation detaches its channel when it returns: the
\* handler passes signals to the channels of running invocations only.
deliverToChan_skipReturned(signal) ==
  [j \in Invocations |->
     IF attached[j] /\ hasRoom(j) /\ pc[j] # "done"
     THEN Append(chan[j], signal) ELSE chan[j]]

deliverToChan(signal) ==
  [j \in Invocations |->
     IF attached[j] /\ hasRoom(j) THEN Append(chan[j], signal) ELSE chan[j]]

deliverToBlocked(signal) ==
  [j \in Invocations |->
     IF attached[j] /\ ~hasRoom(j) THEN Append(pending[j], signal) ELSE pending[j]]

\* The daemon ends the operation started by i's call and emits Completed.
DaemonCompleted(i, body) ==
  /\ ~closed
  /\ opState[i] = "running"
  /\ opState' = [opState EXCEPT ![i] = "completed"]
  /\ chan' = deliverToChan(CompletedSignal(body, i))
  /\ pending' = deliverToBlocked(CompletedSignal(body, i))
  /\ UNCHANGED <<closed, pc, attached, result, resolvedBy, nReads, lastError, nOther, reply, nGetter>>

\* Some other signal reaches the connection.
BusOther ==
  /\ ~closed
  /\ nOther < MaxOther
  /\ nOther' = nOther + 1
  /\ chan' = deliverToChan(OtherSignal)
  /\ pending' = deliverToBlocked(OtherSignal)
  /\ UNCHANGED <<closed, pc, attached, result, resolvedBy, nReads, opState, lastError, reply, nGetter>>

\* The daemon sets its LastError property.
DaemonSetLastError(e) ==
  /\ lastError # e
  /\ lastError' = e
  /\ UNCHANGED <<closed, pc, attached, chan, pending, result, resolvedBy,
                 nReads, opState, nOther, reply, nGetter>>

\* The connection ends: the handler closes every registered channel and
\* drops the sends it had not made.
ConnClose ==
  /\ ~closed
  /\ closed' = TRUE
  /\ pending' = [j \in Invocations |-> <<>>]
  /\ UNCHANGED <<pc, attached, chan, result, resolvedBy, nReads,
                 opState, lastError, nOther, reply, nGetter>>

(* ------------------------------------------- property reads, simple calls *)

\* The values of the daemon's string properties.
propertyValue(member) ==
  CASE member = "Operation" ->
         Str(IF \E i \in Invocations : opState[i] = "running" THEN "installing" ELSE "idle")
    [] member = "LastError" -> Str(lastError)
    [] member = "Compatible" -> Str("board-a")
    [] member = "Variant" -> Str("")
    [] member = "BootSlot" -> Str("rootfs.0")

\* The values the daemon's Progress property is read as: (isi) structs, and
\* values of another shape.
ProgressValues ==
  { Struct(<<Int32(42), Str("copying image"), Int32(1)>>),
    Struct(<<Int32(100), Str("done"), Int32(0)>>),
    Struct(<<Int32(42), Str("copying image")>>),
    Struct(<<Str("42"), Str("copying image"), Int32(1)>>),
    Str("copying image") }

\* The daemon's replies to Info, Mark and GetSlotStatus, and an empty reply.
callReplies(member) ==
  { <<>>,
    CASE member = "Info" -> <<Str("board-a"), Str("1.0")>>
      [] member = "Mark" -> <<Str("rootfs.1"), Str("marked slot rootfs.1 as good")>>
      [] member = "GetSlotStatus" ->
           <<Array(<<Struct(<<Str("rootfs.0"), Array(<<>>)>>),
                     Struct(<<Str("rootfs.1"), Array(<<>>)>>)>>)>> }

\* p.object.Call(member, 0, args...): the outcomes when the daemon's reply
\* is body.
Call(body) ==
  {[v |-> NoValue, err |-> e] : e \in TransportErrors(closed)}
    \cup (IF closed THEN {} ELSE {[v |-> Struct(body), err |-> Nil]})

\* (*Call).Store(dest...): the call's error, else dbus.Store of its body.
callStore(c, types) == IF c.err # Nil THEN c.err ELSE Store(c.v.f, types)

GetOperation(rev, r) ==
  IF r.err # Nil
  THEN [s |-> <<>>, err |-> wrap(rev, "RAUC: GetOperation(): ", r.err)]
  ELSE [s |-> VariantString(r.v), err |-> Nil]

GetCompatible(rev, r) ==
  IF r.err # Nil
  THEN [s |-> <<>>, err |-> wrap(rev, "RAUC: GetProperty(Compatible): ", r.err)]
  ELSE [s |-> VariantString(r.v), err |-> Nil]

GetVariant(rev, r) ==
  IF r.err # Nil
  THEN [s |-> <<>>, err |-> wrap(rev, "RAUC: GetProperty(Variant): ", r.err)]
  ELSE [s |-> VariantString(r.v), err |-> Nil]

GetBootSlot(rev, r) ==
  IF r.err # Nil
  THEN [s |-> <<>>, err |-> wrap(rev, "RAUC: GetProperty(BootSlot): ", r.err)]
  ELSE [s |-> VariantString(r.v), err |-> Nil]

StringProperties == {"Operation", "LastError", "Compatible", "Variant", "BootSlot"}

getString(rev, member, r) ==
  CASE member = "Operation" -> GetOperation(rev, r)
    [] member = "LastError" -> GetLastError(rev, r)
    [] member = "Compatible" -> GetCompatible(rev, r)
    [] member = "Variant" -> GetVariant(rev, r)
    [] member = "BootSlot" -> GetBootSlot(rev, r)

\* dbus.Store(src, &response), src holding the variant's value and response a
\* struct whose exported fields have the given types.
storeStruct(v, types) ==
  IF v.t # "struct" THEN errorsNew(<<"dbus.Store: type mismatch">>)
  ELSE Store(v.f, types)

\* The exported fields of progressResponse: part_000 declares Percentage,
\* Message, NestingDepth; the other revisions declare percentage, message,
\* nestingDepth, which Store cannot set.
progressResponse(rev) ==
  IF rev = "part_000" THEN <<"int32", "string", "int32">> ELSE <<>>

\* response after dbus.Store(src, &response)
storedProgress(rev, v) ==
  IF storeStruct(v, progressResponse(rev)) = Nil /\ progressResponse(rev) # <<>>
  THEN [percentage |-> v.f[1].n, message |-> v.f[2].s, nestingDepth |-> v.f[3].n]
  ELSE NoProgress

FailedProgress == [percentage |-> -1, message |-> "", nestingDepth |-> -1]

\* GetProgress(): part_000 returns Store's error, the other revisions drop it.
GetProgress(rev, r) ==
  IF r.err # Nil
  THEN [prog |-> FailedProgress,
        err |-> wrap(rev, "RAUC: GetProperty(Progress): ", r.err)]
  ELSE IF rev = "part_000" /\ storeStruct(r.v, progressResponse(rev)) # Nil
       THEN [prog |-> FailedProgress,
             err |-> fmtErrorf("RAUC: Cannot store result: ",
                               storeStruct(r.v, progressResponse(rev)))]
       ELSE [prog |-> storedProgress(rev, r.v), err |-> Nil]

Info(rev, c) ==
  LET err == callStore(c, <<"string", "string">>) IN
  IF err # Nil THEN [s |-> <<"", "">>, err |-> wrap(rev, "RAUC: Info(): ", err)]
  ELSE [s |-> <<c.v.f[1].s, c.v.f[2].s>>, err |-> Nil]

Mark(rev, c) ==
  LET err == callStore(c, <<"string", "string">>) IN
  IF err # Nil THEN [s |-> <<"", "">>, err |-> wrap(rev, "RAUC: Mark(): ", err)]
  ELSE [s |-> <<c.v.f[1].s, c.v.f[2].s>>, err |-> Nil]

\* The slot names stand for the []SlotStatus returned.
GetSlotStatus(rev, c) ==
  LET err == callStore(c, <<"array">>) IN
  IF err # Nil THEN [s |-> <<>>, err |-> wrap(rev, "RAUC: GetSlotStatus(): ", err)]
  ELSE [s |-> [k \in 1..Len(c.v.f[1].f) |-> c.v.f[1].f[k].f[1].s], err |-> Nil]

SimpleCalls == {"Info", "Mark", "GetSlotStatus"}

simpleCall(rev, member, c) ==
  CASE member = "Info" -> Info(rev, c)
    [] member = "Mark" -> Mark(rev, c)
    [] member = "GetSlotStatus" -> GetSlotStatus(rev, c)

\* Faulty variant: the read takes its answer from the invocations' channels.
getterEffect_drain ==
  /\ nGetter < MaxGetterCalls
  /\ nGetter' = nGetter + 1
  /\ chan' = [j \in Invocations |-> IF chan[j] # <<>> THEN Tail(chan[j]) ELSE chan[j]]
  /\ UNCHANGED <<pc, attached, pending, result, resolvedBy, nReads>>

\* What a property read or simple call does to the Installer's invocations:
\* nothing, it uses its own request and reply.
getterEffect ==
  /\ nGetter < MaxGetterCalls
  /\ nGetter' = nGetter + 1
  /\ UNCHANGED <<pc, attached, chan, pending, result, resolvedBy, nReads>>

\* Some caller reads a string property.
ReadString(rev, member) ==
  /\ getterEffect
  /\ \E r \in GetProperty(propertyValue(member)) :
       LET g == getString(rev, member, r) IN
       reply' = Reply(member, g.s, NoProgress, g.err, r)
  /\ UNCHANGED <<closed, opState, lastError, nOther>>

\* Some caller reads the Progress property.
ReadProgress(rev) ==
  /\ getterEffect
  /\ \E v \in ProgressValues : \E r \in GetProperty(v) :
       LET g == GetProgress(rev, r) IN
       reply' = Reply("Progress", <<>>, g.prog, g.err, r)
  /\ UNCHANGED <<closed, opState, lastError, nOther>>

\* Some caller makes one of the simple calls.
CallSimple(rev, member) ==
  /\ getterEffect
  /\ \E body \in callReplies(member) : \E c \in Call(body) :
       LET g == simpleCall(rev, member, c) IN
       reply' = Reply(member, g.s, NoProgress, g.err, c)
  /\ UNCHANGED <<closed, opState, lastError, nOther>>

(* ---------------------------------------------------------- specifications *)

Next ==
  \/ \E i \in Invocations : InstallBundle_Signal(i)
  \/ \E i \in Invocations : InstallBundle_Call(i)
  \/ \E i \in Invocations : InstallBundle_Receive(i)
  \/ \E i \in Invocations : InstallBundle_GetLastError(i)
  \/ \E i \in Invocations : \E body \in Bodies : DaemonCompleted(i, body)
  \/ BusOther
  \/ \E e \in LastErrors : DaemonSetLastError(e)
  \/ ConnClose

\* The Installer used for installations only.
Spec == Init /\ [][Next]_vars

\* The Installer with all of its methods in use.
NextApi ==
  \/ Next
  \/ \E rev \in Revisions : \E member \in StringProperties : ReadString(rev, member)
  \/ \E rev \in Revisions : ReadProgress(rev)
  \/ \E rev \in Revisions : \E member \in SimpleCalls : CallSimple(rev, member)

ApiSpec == Init /\ [][NextApi]_vars

\* The goroutine of an invocation runs on while it can take a step.
FairSpec ==
  /\ Spec
  /\ \A i \in Invocations : WF_vars(InstallBundle_Receive(i))
  /\ \A i \in Invocations : WF_vars(InstallBundle_GetLastError(i))

(* ------------------------------------------------------------ properties *)

\* Invocation i takes a signal off its doneChannel in this step.
Receives(i) == chan[i] # <<>> /\ chan'[i] = afterReceive(chan[i], pending[i])

\* Invocation i returns from reading LastError in this step.
ReturnsFromRead(i) == pc[i] = "geterr" /\ pc'[i] = "done"

CompletedName == <<"de.pengutronix.rauc", "Installer", "Completed">>

\* The signal is a Completed carrying the int32 code c.
Carries(signal, c) ==
  /\ signal.name = CompletedName
  /\ Len(signal.body) = 1 /\ signal.body[1].t = "int32" /\ signal.body[1].n = c

CarriesNonZero(signal) == \E c \in Codes \ {0} : Carries(signal, c)

\* The error detail a raw completion code would make.
RawCode(signal) == <<ToString(signal.body[1].n)>>

\* The string GetLastError returns for the value s of LastError.
Quoted(s) == <<"\"", s, "\"">>

\* The errors a failed LastError read is returned as.
ReadErrors ==
  {ErrRemote, ErrClosed,
   fmtErrorf("RAUC: GetLastError(): ", ErrRemote),
   fmtErrorf("RAUC: GetLastError(): ", ErrClosed)}

\* C1 as claimed: whenever the accepted Completed carries a non-zero code, the
\* invocation returns a failure whose message is the LastError string as
\* GetLastError read it.
C1_MessageIsLastError ==
  \A i \in Invocations : \A rev \in Revisions :
    (pc[i] = "done" /\ CarriesNonZero(resolvedBy[i])) =>
      /\ returned(rev, result[i]).kind = "error"
      /\ returned(rev, result[i]).msg = Quoted(result[i].read.v.s)

\* C1 amended, state part: a non-zero code leads to exactly one LastError
\* read and to a failure, never to success and never to the raw code.
C1_NonZeroFails ==
  \A i \in Invocations : \A rev \in Revisions :
    CarriesNonZero(resolvedBy[i]) =>
      /\ pc[i] \in {"geterr", "done"}
      /\ pc[i] = "geterr" => nReads[i] = 0
      /\ pc[i] = "done" =>
           /\ nReads[i] = 1
           /\ returned(rev, result[i]).kind = "error"
           /\ returned(rev, result[i]).msg # RawCode(resolvedBy[i])

\* C1 amended, step part: the return after the read is the daemon's LastError
\* of that moment as GetLastError gives it when the read succeeded, and the
\* read's own error when it failed.
C1_ReadStep ==
  \A i \in Invocations : \A rev \in Revisions :
    ReturnsFromRead(i) =>
      IF result'[i].read.err = Nil
      THEN returned(rev, result'[i]) = errorsNew(Quoted(lastError))
      ELSE returned(rev, result'[i]) \in ReadErrors

\* C1 (amended): for every non-zero completion code the invocation makes one
\* GetLastError read after the notification and returns a failure, never
\* success and never the raw code; the failure's message is the LastError
\* string as read at that moment when the read succeeds, and the read's own
\* error when the read fails.
C1_NonZeroReturnsLastError == []C1_NonZeroFails /\ [][C1_ReadStep]_vars

\* C1 witness: an invocation returned the daemon's non-empty LastError after a
\* non-zero code.
C1_Witness ==
  \E i \in Invocations :
    /\ pc[i] = "done" /\ CarriesNonZero(resolvedBy[i])
    /\ result[i].read.err = Nil /\ result[i].read.v.s = "Failed to verify bundle"

\* C2: when the call succeeded and the first Completed received carries code
\* zero, the invocation returns nil and makes no LastError read, whatever
\* LastError holds.
C2_ZeroIsSuccess ==
  \A i \in Invocations : \A rev \in Revisions :
    Carries(resolvedBy[i], 0) =>
      /\ pc[i] = "done"
      /\ returned(rev, result[i]) = Nil
      /\ nReads[i] = 0

\* C2 witness: success while the daemon's LastError is not empty.
C2_Witness ==
  \E i \in Invocations :
    /\ pc[i] = "done" /\ Carries(resolvedBy[i], 0)
    /\ lastError = "Failed to verify bundle"

\* C3, step part: a received signal that is not Completed is dropped and the
\* invocation goes on waiting.
C3_DiscardStep ==
  \A i \in Invocations :
    (pc[i] = "wait" /\ Receives(i) /\ Head(chan[i]).name # CompletedName) =>
      /\ pc'[i] = "wait"
      /\ result'[i] = result[i]
      /\ resolvedBy'[i] = resolvedBy[i]

\* C3, state part: an outcome other than a failed call or a closed channel
\* comes from a Completed signal, and from the first one received.
C3_OutcomeFromCompleted ==
  \A i \in Invocations :
    /\ result[i].ret \in {"nil", "store", "lasterror"} =>
         resolvedBy[i].name = CompletedName
    /\ resolvedBy[i] # NoSignal =>
         /\ resolvedBy[i].name = CompletedName
         /\ pc[i] \in {"geterr", "done"}

\* C3: while an invocation waits, every received notification that is not
\* Completed is discarded and the wait goes on; only a Completed, the first
\* one received, decides the outcome.
C3_OthersAreDiscarded == []C3_OutcomeFromCompleted /\ [][C3_DiscardStep]_vars

\* C3 witness: invocation 1 attached before invocation 2, so it was handed
\* every signal invocation 2 still holds; it took the other signal and then
\* the Completed, and returned by the Completed.
C3_Witness ==
  /\ MaxInv >= 2
  /\ pc[1] = "done" /\ resolvedBy[1] # NoSignal /\ chan[1] = <<>>
  /\ chan[2] = <<OtherSignal, resolvedBy[1]>>

\* C4, state part: an invocation past its call whose operation the daemon
\* never started has returned the call's error, with no signal accepted and
\* no LastError read.
C4_FailedCallReturned ==
  \A i \in Invocations : \A rev \in Revisions :
    (pc[i] \notin {"idle", "call"} /\ opState[i] = "none") =>
      /\ pc[i] = "done"
      /\ returned(rev, result[i]) \in
           {ErrRemote, ErrClosed, fmtErrorf("RAUC: Install(): ", ErrRemote),
            fmtErrorf("RAUC: Install(): ", ErrClosed)}
      /\ resolvedBy[i] = NoSignal
      /\ nReads[i] = 0

\* C4, step part: only a waiting invocation receives from its channel, and an
\* invocation that has returned stays returned.
C4_NoReceiveStep ==
  \A i \in Invocations :
    /\ pc[i] # "wait" => ~Receives(i)
    /\ pc[i] = "done" => pc'[i] = "done" /\ result'[i] = result[i]

\* C4: when the Install/InstallBundle method call fails, the invocation
\* returns the call's error at once: it never waits, receives nothing from
\* its channel and does not read LastError.
C4_CallErrorReturnsAtOnce == []C4_FailedCallReturned /\ [][C4_NoReceiveStep]_vars

\* C4 witness: the call failed while a Completed sat in the invocation's
\* channel.
C4_Witness ==
  \E i \in Invocations :
    /\ pc[i] = "done" /\ result[i].ret = "call"
    /\ \E k \in 1..Len(chan[i]) : chan[i][k].name = CompletedName

NoCompletedIn(buf) == \A k \in 1..Len(buf) : buf[k].name # CompletedName

ChannelClosedErrors ==
  {errorsNew(<<"RAUC: Cannot read from channel">>), errorsNew(<<"Cannot read from channel">>)}

\* C5, step part: a waiting invocation whose channel is closed with no
\* Completed in it can only go on discarding or return the channel-closed
\* error.
C5_ClosedStep ==
  \A i \in Invocations : \A rev \in Revisions :
    (pc[i] = "wait" /\ closed /\ attached[i] /\ NoCompletedIn(chan[i]) /\ pc'[i] # "wait") =>
      /\ pc'[i] = "done"
      /\ returned(rev, result'[i]) \in ChannelClosedErrors
      /\ nReads'[i] = 0

\* C5, state part: the channel-closed error is returned only with the
\* channel closed and drained, no Completed accepted and no LastError read.
C5_ClosedResult ==
  \A i \in Invocations :
    result[i].ret = "closed" =>
      /\ closed /\ chan[i] = <<>>
      /\ resolvedBy[i] = NoSignal
      /\ nReads[i] = 0

Pending(i) == pc[i] = "wait"

\* C6 as claimed: in every reachable state of one Installer at most one
\* invocation is pending, for any interleaving of concurrent callers.
C6_AtMostOnePending == Cardinality({i \in Invocations : Pending(i)}) <= 1

\* C7, step part: a waiting invocation that receives a Completed signal is
\* resolved by it, whichever operation the daemon emitted it for.
C7_AnyCompletedResolvesStep ==
  \A i \in Invocations :
    (pc[i] = "wait" /\ Receives(i) /\ Head(chan[i]).name = CompletedName) =>
      /\ pc'[i] # "wait"
      /\ resolvedBy'[i] = Head(chan[i])

\* C7: with two invocations pending on the same connection, the Completed
\* emitted for one invocation's operation resolves the other invocation: a
\* waiter matches on the member name alone.
C7_CompletedIsNotCorrelated == [][C7_AnyCompletedResolvesStep]_vars

\* C7 witness: invocation i has returned by the Completed of j's operation
\* while its own operation still runs and j still waits.
C7_Witness ==
  \E i, j \in Invocations :
    /\ i # j
    /\ pc[i] = "done" /\ resolvedBy[i].name = CompletedName /\ resolvedBy[i].op = j
    /\ opState[i] = "running"
    /\ pc[j] = "wait"

\* C8: a property read or simple call made while an invocation is in flight
\* leaves every invocation as it was: nothing is received from or removed
\* from a channel, no channel is attached, and neither the accepted signal
\* nor the result changes.
C8_GettersLeaveInvocations ==
  [][nGetter' # nGetter =>
       /\ reply'.op \in StringProperties \cup SimpleCalls \cup {"Progress"}
       /\ UNCHANGED <<pc, attached, chan, pending, result, resolvedBy, nReads>>]_vars

\* C8 witness: Operation was read as "installing" and an invocation waits
\* with a Completed in its channel.
C8_Witness ==
  /\ nGetter = 1
  /\ reply.op = "Operation" /\ reply.s = Quoted("installing")
  /\ \E i \in Invocations :
       pc[i] = "wait" /\ chan[i] # <<>> /\ Head(chan[i]).name = CompletedName

\* The value has the shape (int32, string, int32).
IsProgressShape(v) ==
  /\ v.t = "struct" /\ Len(v.f) = 3
  /\ v.f[1].t = "int32" /\ v.f[2].t = "string" /\ v.f[3].t = "int32"

\* The errors a failed Progress read is returned as.
ProgressReadErrors ==
  {ErrRemote, ErrClosed,
   fmtErrorf("RAUC: GetProperty(Progress): ", ErrRemote),
   fmtErrorf("RAUC: GetProperty(Progress): ", ErrClosed)}

\* C9 as claimed: when the Progress read succeeds and the value has not the
\* three-field shape, GetProgress returns an error, other than that of a
\* failed read; never a nil error with progress values.
C9_ShapeMismatchIsAnError ==
  (reply.op = "Progress" /\ reply.read.err = Nil /\ ~IsProgressShape(reply.read.v)) =>
    /\ reply.err # Nil
    /\ reply.err \notin ProgressReadErrors

\* A Completed signal is queued for invocation i.
CompletedQueued(i) ==
  \/ ~NoCompletedIn(chan[i])
  \/ ~NoCompletedIn(pending[i])

\* C10, state part: the channel is attached before the daemon starts the
\* operation, and while the invocation still waits after the daemon emitted
\* its Completed, a Completed is queued on its channel.
C10_CompletedIsQueued ==
  \A i \in Invocations :
    /\ opState[i] # "none" => attached[i]
    /\ (opState[i] = "completed" /\ pc[i] = "wait") => CompletedQueued(i)

\* C10: the channel is attached before the call is sent, so the completion
\* is not lost: once the call succeeded and the daemon emitted Completed, the
\* signal is queued on the invocation's channel and the invocation
\* eventually returns.
C10_CompletionIsNotLost ==
  /\ []C10_CompletedIsQueued
  /\ \A i \in Invocations : (opState[i] = "completed") ~> (pc[i] = "done")

\* C10 witness: the daemon emitted Completed after another signal and before
\* the invocation made its first receive.
C10_Witness ==
  \E i \in Invocations :
    /\ pc[i] = "wait" /\ opState[i] = "completed"
    /\ Len(chan[i]) = 2
    /\ chan[i][1] = OtherSignal /\ chan[i][2].op = i

\* Invocation i has started: it has made its channel and called conn.Signal.
Started(i) == pc[i] # "idle"

\* A signal reaches the connection in this step.
SignalArrives ==
  \/ nOther' # nOther
  \/ \E j \in Invocations : opState[j] = "running" /\ opState'[j] = "completed"

\* The signals held for invocation i: in its channel, or with senders blocked
\* on it.
Held(i) == Len(chan[i]) + Len(pending[i])

\* C11 as claimed: after any sequence of invocations the number of channels
\* attached to the connection equals the number of invocations started.
C11_AttachedEqualsStarted ==
  Cardinality({i \in Invocations : attached[i]}) =
    Cardinality({i \in Invocations : Started(i)})

\* C11 amended, state part: an invocation started on the open connection has
\* its own channel attached, so that while the connection is open the
\* attached channels are as many as the invocations started; only an
\* invocation started after the connection ended has none.
C11_AttachedWhileOpen ==
  /\ \A i \in Invocations : attached[i] => Started(i)
  /\ ~closed => C11_AttachedEqualsStarted

\* C11 amended, step part: no step detaches a channel, whichever return the
\* invocation took; nothing is taken from the channel of a returned
\* invocation, and every signal reaching the open connection is added to it.
C11_NoDetachStep ==
  \A i \in Invocations :
    /\ attached[i] => attached'[i]
    /\ (attached[i] /\ pc[i] = "done") =>
         /\ SubSeq(chan'[i], 1, Len(chan[i])) = chan[i]
         /\ (SignalArrives /\ ~closed) => Held(i)' = Held(i) + 1

\* C11 (amended): every invocation started while the connection is open
\* attaches a channel of its own and no path of the invocation detaches it:
\* while the connection is open the attached channels are as many as the
\* invocations started, and the channels of returned invocations go on
\* receiving signals that are never read. An invocation started after the
\* connection ended attaches nothing.
C11_ChannelsAreNeverDetached == []C11_AttachedWhileOpen /\ [][C11_NoDetachStep]_vars

\* C11 witness: on the open connection every invocation has returned, all
\* channels are still attached, and the channel of one that returned nil
\* holds a signal no one will read.
C11_Witness ==
  /\ ~closed
  /\ \A i \in Invocations : pc[i] = "done" /\ attached[i]
  /\ \E i \in Invocations : result[i].ret = "nil" /\ chan[i] # <<>>

====
